---- MODULE Spec2Model ----
(***************************************************************************)
(* goodnotes2git (src/app.py): one-directional sync of a remote drive      *)
(* subtree into a local git clone.                                         *)
(*                                                                         *)
(* A run of main() is: list the root folder, walk every root-level folder  *)
(* that is not an archive (map_children, recursive), return early when     *)
(* nothing was collected, otherwise fetch_repo(), write every collected    *)
(* file and every empty-folder marker, read the working-tree status and    *)
(* stage/commit/push when it is dirty.                                     *)
(*                                                                         *)
(* Time is counted in minutes.  A name is a sequence of characters, a      *)
(* path is a sequence of names (the code joins them with '/').  A tree     *)
(* (working tree, index, HEAD, origin) is a function from paths to file    *)
(* contents.  The remote hierarchy is fixed during a behaviour; the origin *)
(* repository is written by this program only.                             *)
(***************************************************************************)
EXTENDS Integers, Sequences, FiniteSets, TLC

(* ------------------------------ bounds -------------------------------- *)

\* number of items (files and folders) below the remote root
MaxItems == 3

\* how many minutes the clock may advance during a behaviour
MaxTicks == 2

\* how many times the process is started
MaxRuns == 2

(* ------------------------- program constants -------------------------- *)

\* timedelta(minutes=15)
WINDOW == 15

\* item.name.startswith('ZZ')
ArchivePrefix == <<"Z", "Z">>

\* the '.' of f"./{GIT_REPO_PATH}/{item.name}"
Dot == <<".">>

\* GIT_REPO_PATH (a relative directory name)
GIT_REPO_PATH == <<"r">>

\* '.gitkeep'
GitKeep == <<".", "g", "i", "t", "k", "e", "e", "p">>

\* ROOT_DIR_ID
ROOT_DIR_ID == 0

(* --------------------------- remote store ----------------------------- *)

ItemIds == 1..MaxItems

\* names the remote items may carry: one archive name, one that only
\* shares its first character with the archive prefix
Names == {<<"Z", "a">>, <<"Z", "Z", "a">>}

\* last_modified_date_time values of the remote files
LastModifiedValues == {0, 1}

\* bytes of a remote file as served now / as served at an earlier sync
CurrentBytes == "v1"
EarlierBytes == "v0"
NoBytes == ""

VARIABLES
  remote,          \* the remote hierarchy: item id -> [parent, kind, name, lm]
  clock,           \* datetime.now(tz=utc), in minutes
  run,             \* number of the current process start
  pc,              \* position of main()
  err,             \* the exception that ended the run, "none" otherwise
  rootItems,       \* root_result.value still to be iterated by main
  stack,           \* active map_children frames: [path, items still to iterate]
  UPDATED_FILES,   \* global list of {"path", "id"}
  EMPTY_FOLDERS,   \* global list of paths
  nFiles,          \* iterations of the UPDATED_FILES loop completed
  nFolders,        \* iterations of the EMPTY_FOLDERS loop completed
  repoExists,      \* os.path.exists(GIT_REPO_PATH)
  worktree,        \* local files below GIT_REPO_PATH
  index,           \* git index of the local clone
  head,            \* tree of the local clone's last commit
  origin,          \* tree of the remote repository's branch
  untracked_files, \* len(GIT_REPO.untracked_files) as read by main
  changed_files,   \* len(GIT_REPO.index.diff(None)) as read by main
  hist             \* what the current run has done so far (observation only)

vars == <<remote, clock, run, pc, err, rootItems, stack, UPDATED_FILES,
          EMPTY_FOLDERS, nFiles, nFolders, repoExists, worktree, index, head,
          origin, untracked_files, changed_files, hist>>

remoteVars == <<remote>>
walkVars == <<rootItems, stack, UPDATED_FILES, EMPTY_FOLDERS>>
loopVars == <<nFiles, nFolders>>
gitVars == <<repoExists, worktree, index, head, origin>>
statusVars == <<untracked_files, changed_files>>

(* ----------------------------- helpers -------------------------------- *)

RECURSIVE SetToSeq(_)
\* the members of a set of integers in increasing order
SetToSeq(S) ==
  IF S = {} THEN <<>>
  ELSE LET m == CHOOSE x \in S : \A y \in S : x <= y
       IN <<m>> \o SetToSeq(S \ {m})

\* children.get(): the items whose parent is p, in the order served
ChildrenOf(r, p) == SetToSeq({i \in DOMAIN r : r[i].parent = p})

\* item.name.startswith('ZZ')
IsArchive(name) ==
  /\ Len(name) >= Len(ArchivePrefix)
  /\ SubSeq(name, 1, Len(ArchivePrefix)) = ArchivePrefix

\* IsStale with the window one minute too long
IsStale_LongWindow(lm, now) == lm < now - WINDOW - 1

\* item.last_modified_date_time < (datetime.now(tz=utc) - timedelta(minutes=15))
IsStale(lm, now) == lm < now - WINDOW

\* f"./{GIT_REPO_PATH}/{item.name}"
RootPath(name) == <<Dot, GIT_REPO_PATH, name>>

\* ChildPath that forgets the folders above the entry
ChildPath_Flat(path, name) == <<Dot, GIT_REPO_PATH, name>>

\* f"{path}/{item.name}" and path + '/' + item.name
ChildPath(path, name) == Append(path, name)

\* MarkerPath that writes the placeholder under the repository root
MarkerPath_AtRoot(path) == <<Dot, GIT_REPO_PATH, GitKeep>>

\* os.path.join(path, '.gitkeep')
MarkerPath(path) == Append(path, GitKeep)

EmptyTree == [p \in {} |-> NoBytes]

\* WriteFile that first empties the local directory
WriteFile_Replacing(tree, path, bytes) == [q \in {path} |-> bytes]

\* open(path, 'wb' / 'w') followed by write: create or overwrite one file
WriteFile(tree, path, bytes) ==
  [q \in (DOMAIN tree) \cup {path} |-> IF q = path THEN bytes ELSE tree[q]]

\* GIT_REPO.untracked_files: files of the working tree the index does not hold
Untracked(wt, idx) == {p \in DOMAIN wt : p \notin DOMAIN idx}

\* GIT_REPO.index.diff(None): index entries whose working-tree file differs
Changed(wt, idx) == {p \in DOMAIN idx : p \notin DOMAIN wt \/ wt[p] # idx[p]}

\* IsDirty with 'and' in place of 'or'
IsDirty_And(u, c) == u > 0 /\ c > 0

\* IsDirty that takes a clean tree for dirty
IsDirty_Always(u, c) == u >= 0 \/ c > 0

\* untracked_files > 0 or changed_files > 0
IsDirty(u, c) == u > 0 \/ c > 0

RECURSIVE Unwind(_)
\* a frame whose for-loop is exhausted returns to its caller
Unwind(st) ==
  IF st # <<>> /\ st[Len(st)].items = <<>>
  THEN Unwind(SubSeq(st, 1, Len(st) - 1))
  ELSE st

(* ---------------- the remote hierarchies considered ------------------- *)

ItemRecords ==
  [parent : {ROOT_DIR_ID} \cup ItemIds, kind : {"file", "folder"},
   name : Names, lm : LastModifiedValues]

\* a hierarchy the store can hold: a tree (parents are earlier folders),
\* sibling names distinct; lm of a folder is never read, so it is fixed
WellFormed(r) ==
  /\ \A i \in DOMAIN r :
       /\ r[i].parent < i
       /\ r[i].parent # ROOT_DIR_ID => r[r[i].parent].kind = "folder"
       /\ r[i].kind = "folder" => r[i].lm = 0
  /\ \A i, j \in DOMAIN r :
       (i # j /\ r[i].parent = r[j].parent) => r[i].name # r[j].name

RemoteTrees == {r \in [ItemIds -> ItemRecords] : WellFormed(r)}

RECURSIVE RemotePath(_, _)
\* local path the walk maps item i to
RemotePath(r, i) ==
  IF r[i].parent = ROOT_DIR_ID THEN RootPath(r[i].name)
  ELSE ChildPath(RemotePath(r, r[i].parent), r[i].name)

RECURSIVE TopAncestor(_, _)
\* the root-level item above (or equal to) item i
TopAncestor(r, i) ==
  IF r[i].parent = ROOT_DIR_ID THEN i ELSE TopAncestor(r, r[i].parent)

\* item i lies in or below a root-level folder that is not an archive
UnderWalkedRoot(r, i) ==
  LET t == TopAncestor(r, i)
  IN r[t].kind = "folder" /\ ~IsArchive(r[t].name)

\* the tree an earlier, complete sync of hierarchy r has committed
MirrorTree(r, bytes) ==
  LET fs == {i \in DOMAIN r : r[i].kind = "file" /\ r[i].parent # ROOT_DIR_ID
                              /\ UnderWalkedRoot(r, i)}
      es == {i \in DOMAIN r : r[i].kind = "folder" /\ UnderWalkedRoot(r, i)
                              /\ ChildrenOf(r, i) = <<>>}
      ps == {RemotePath(r, i) : i \in fs} \cup {MarkerPath(RemotePath(r, i)) : i \in es}
  IN [p \in ps |-> IF \E i \in fs : RemotePath(r, i) = p THEN bytes ELSE NoBytes]

\* name and path of a file an earlier sync wrote and the remote store has
\* since lost
GoneName == <<"g">>
GonePath == RootPath(<<"Z", "a">>) \o <<GoneName>>

\* the tree an earlier sync committed when the files had earlier bytes and
\* the remote still held the lost file
EarlierTree(r) ==
  LET m == MirrorTree(r, EarlierBytes)
  IN [p \in (DOMAIN m) \cup {GonePath} |->
        IF p = GonePath THEN EarlierBytes ELSE m[p]]

(* ----------------------------- history -------------------------------- *)

\* listed: folders whose children were requested; examined: files whose
\* timestamp was compared; staleSeen: files that were older than the window
\* when compared; listFailed: the folder whose children request raised;
\* acquired: how
\* fetch_repo obtained the clone; written: paths written; the counters count
\* status reads, stage-all, commit and push calls; before: the working tree
\* at process start; writeFailed: create_file or create_empty_folder raised;
\* syncedStart: at process start the repository held the remote's current
\* content and the local tree was clean; dirtyBefore: the paths that were
\* untracked or modified at process start; prev: whether the previous
\* process ended in NoOp ("noop"), in a raising write ("write"), otherwise
\* ("other"), or there was none ("none")
NoHistory ==
  [listed |-> {}, examined |-> {}, staleSeen |-> {}, listFailed |-> {},
   acquired |-> "none", written |-> {}, statusReads |-> 0, stages |-> 0,
   commits |-> 0, pushes |-> 0, before |-> EmptyTree, writeFailed |-> FALSE,
   syncedStart |-> FALSE, dirtyBefore |-> {}, prev |-> "none"]

\* the repository holds the content of hierarchy r and, when a local clone
\* exists, its working tree, index and last commit are that content too
SyncedClean(r, exists, wt, idx, hd, org) ==
  /\ org = MirrorTree(r, CurrentBytes)
  /\ exists => (wt = org /\ idx = org /\ hd = org)

\* the history of a process that is just starting
StartHistory(r, exists, wt, idx, hd, org, ended, raised) ==
  [NoHistory EXCEPT
     !.prev = IF ended \in {"none", "noop"} THEN ended
              ELSE IF raised \in {"fetch", "marker"} THEN "write"
              ELSE "other",
     !.before = wt,
     !.syncedStart = SyncedClean(r, exists, wt, idx, hd, org),
     !.dirtyBefore = Untracked(wt, idx) \cup Changed(wt, idx)]

(* ------------------------------- Init ---------------------------------- *)

Init ==
  /\ remote \in RemoteTrees
  /\ clock = WINDOW
  /\ run = 1
  /\ pc = "start"
  /\ err = "none"
  /\ rootItems = <<>>
  /\ stack = <<>>
  /\ UPDATED_FILES = <<>>
  /\ EMPTY_FOLDERS = <<>>
  /\ nFiles = 0
  /\ nFolders = 0
  /\ repoExists = FALSE
  /\ worktree = EmptyTree
  /\ index = EmptyTree
  /\ head = EmptyTree
  /\ origin \in {EmptyTree, MirrorTree(remote, CurrentBytes),
                 EarlierTree(remote)}
  /\ untracked_files = 0
  /\ changed_files = 0
  /\ hist = StartHistory(remote, repoExists, worktree, index, head, origin,
                         "none", "none")

(* ------------------------------ the walk ------------------------------- *)

\* main, lines 102-103: the root listing succeeds
MainListRoot ==
  /\ pc = "start"
  /\ rootItems' = ChildrenOf(remote, ROOT_DIR_ID)
  /\ pc' = "walk"
  /\ hist' = [hist EXCEPT !.listed = @ \cup {ROOT_DIR_ID}]
  /\ UNCHANGED <<remoteVars, clock, run, err, stack, UPDATED_FILES,
                 EMPTY_FOLDERS, loopVars, gitVars, statusVars>>

\* main, lines 102-103: the root listing raises
MainListRootFails ==
  /\ pc = "start"
  /\ pc' = "failed"
  /\ err' = "list"
  /\ hist' = [hist EXCEPT !.listed = @ \cup {ROOT_DIR_ID},
                           !.listFailed = {ROOT_DIR_ID}]
  /\ UNCHANGED <<remoteVars, clock, run, walkVars, loopVars, gitVars, statusVars>>

\* MainWalks without the archive filter
MainWalks_NoArchiveFilter(item) == item.kind = "folder"

\* main, lines 107-110: the root children main hands to map_children
MainWalks(item) == ~IsArchive(item.name) /\ item.kind = "folder"

\* MapChildren that records every listed folder as empty
MapChildren_AlwaysMarks(base, i, path) ==
  LET kids == ChildrenOf(remote, i)
  IN /\ hist' = [hist EXCEPT !.listed = @ \cup {i}]
     /\ EMPTY_FOLDERS' = Append(EMPTY_FOLDERS, path)
     /\ IF Len(kids) = 0
        THEN stack' = Unwind(base)
        ELSE stack' = Append(base, [path |-> path, items |-> kids])

\* map_children, lines 59-64, listing succeeded: an empty folder is recorded
\* and the call returns, otherwise a frame iterates the children.
\* base is the callers' stack, i the folder, path its local path.
MapChildren(base, i, path) ==
  LET kids == ChildrenOf(remote, i)
  IN /\ hist' = [hist EXCEPT !.listed = @ \cup {i}]
     /\ IF Len(kids) = 0
        THEN /\ EMPTY_FOLDERS' = Append(EMPTY_FOLDERS, path)
             /\ stack' = Unwind(base)
        ELSE /\ EMPTY_FOLDERS' = EMPTY_FOLDERS
             /\ stack' = Append(base, [path |-> path, items |-> kids])

\* the for-loop of main is at a root child (no map_children call is active)
AtRootItem == pc = "walk" /\ stack = <<>> /\ rootItems # <<>>

\* the for-loop of the innermost map_children call is at an item
AtItem == pc = "walk" /\ stack # <<>>

Top == stack[Len(stack)]

\* the callers' stack once the innermost loop has taken its current item
Taken == [stack EXCEPT ![Len(stack)].items = Tail(@)]

\* main, lines 105-110: an archive or a non-folder root child is passed over
MainSkipItem ==
  /\ AtRootItem
  /\ ~MainWalks(remote[Head(rootItems)])
  /\ rootItems' = Tail(rootItems)
  /\ UNCHANGED <<remoteVars, clock, run, pc, err, stack, UPDATED_FILES,
                 EMPTY_FOLDERS, loopVars, gitVars, statusVars, hist>>

\* main, line 111: map_children is called on a root folder
MainWalkFolder ==
  /\ AtRootItem
  /\ LET i == Head(rootItems)
     IN /\ MainWalks(remote[i])
        /\ rootItems' = Tail(rootItems)
        /\ MapChildren(<<>>, i, RootPath(remote[i].name))
  /\ UNCHANGED <<remoteVars, clock, run, pc, err, UPDATED_FILES, loopVars,
                 gitVars, statusVars>>

\* map_children, lines 67-71: a file older than the window is passed over
MapSkipStale ==
  /\ AtItem
  /\ LET i == Head(Top.items)
     IN /\ remote[i].kind = "file"
        /\ IsStale(remote[i].lm, clock)
        /\ stack' = Unwind(Taken)
        /\ hist' = [hist EXCEPT
                      !.examined = @ \cup {i},
                      !.staleSeen = IF remote[i].lm < clock - WINDOW
                                    THEN @ \cup {i} ELSE @]
  /\ UNCHANGED <<remoteVars, clock, run, pc, err, rootItems, UPDATED_FILES,
                 EMPTY_FOLDERS, loopVars, gitVars, statusVars>>

\* map_children, lines 67-77: a file inside the window is queued
MapAppendFresh ==
  /\ AtItem
  /\ LET i == Head(Top.items)
     IN /\ remote[i].kind = "file"
        /\ ~IsStale(remote[i].lm, clock)
        /\ UPDATED_FILES' = Append(UPDATED_FILES,
                               [path |-> ChildPath(Top.path, remote[i].name),
                                id |-> i])
        /\ stack' = Unwind(Taken)
        /\ hist' = [hist EXCEPT
                      !.examined = @ \cup {i},
                      !.staleSeen = IF remote[i].lm < clock - WINDOW
                                    THEN @ \cup {i} ELSE @]
  /\ UNCHANGED <<remoteVars, clock, run, pc, err, rootItems, EMPTY_FOLDERS,
                 loopVars, gitVars, statusVars>>

\* map_children, lines 79-80: recursion into a sub-folder
MapRecurse ==
  /\ AtItem
  /\ LET i == Head(Top.items)
     IN /\ remote[i].kind = "folder"
        /\ MapChildren(Taken, i, ChildPath(Top.path, remote[i].name))
  /\ UNCHANGED <<remoteVars, clock, run, pc, err, rootItems, UPDATED_FILES,
                 loopVars, gitVars, statusVars>>

\* the folder whose children map_children is about to request
NextListed ==
  IF stack = <<>> THEN Head(rootItems) ELSE Head(Top.items)

\* MapChildrenListFails with the exception caught inside map_children,
\* which then returns to its caller
MapChildrenListFails_Swallowed ==
  /\ \/ AtRootItem /\ MainWalks(remote[Head(rootItems)])
     \/ AtItem /\ remote[Head(Top.items)].kind = "folder"
  /\ hist' = [hist EXCEPT !.listed = @ \cup {NextListed},
                           !.listFailed = {NextListed}]
  /\ IF stack = <<>>
     THEN rootItems' = Tail(rootItems) /\ stack' = stack
     ELSE rootItems' = rootItems /\ stack' = Unwind(Taken)
  /\ UNCHANGED <<remoteVars, clock, run, pc, err, UPDATED_FILES,
                 EMPTY_FOLDERS, loopVars, gitVars, statusVars>>

\* map_children, line 59: the listing raises; the exception leaves every
\* active call and main
MapChildrenListFails ==
  /\ \/ AtRootItem /\ MainWalks(remote[Head(rootItems)])
     \/ AtItem /\ remote[Head(Top.items)].kind = "folder"
  /\ pc' = "failed"
  /\ err' = "list"
  /\ hist' = [hist EXCEPT !.listed = @ \cup {NextListed},
                           !.listFailed = {NextListed}]
  /\ UNCHANGED <<remoteVars, clock, run, walkVars, loopVars, gitVars, statusVars>>

\* the for-loop of main has ended (line 113 is reached)
WalkFinished == pc = "walk" /\ stack = <<>> /\ rootItems = <<>>

\* line 113: len(UPDATED_FILES) == 0 and len(EMPTY_FOLDERS) == 0
NothingFound == Len(UPDATED_FILES) = 0 /\ Len(EMPTY_FOLDERS) = 0

\* MainNoChanges without the return: main logs and goes on to fetch_repo,
\* the two (empty) loops and the status read
MainNoChanges_NoReturn ==
  /\ WalkFinished
  /\ NothingFound
  /\ pc' = "status"
  /\ hist' = [hist EXCEPT !.acquired = IF repoExists THEN "pull" ELSE "clone"]
  /\ repoExists' = TRUE
  /\ worktree' = IF repoExists THEN worktree ELSE origin
  /\ index' = IF repoExists THEN index ELSE origin
  /\ head' = IF repoExists THEN head ELSE origin
  /\ UNCHANGED <<remoteVars, clock, run, err, walkVars, loopVars, origin,
                 statusVars>>

\* main, lines 113-115: early return
MainNoChanges ==
  /\ WalkFinished
  /\ NothingFound
  /\ pc' = "exit"
  /\ UNCHANGED <<remoteVars, clock, run, err, walkVars, loopVars, gitVars,
                 statusVars, hist>>

(* --------------------------- materialization --------------------------- *)

\* LoopPc with the status read placed before the EMPTY_FOLDERS loop
LoopPc_StatusBeforeFolders(nf, ne) ==
  IF nf < Len(UPDATED_FILES) THEN "files" ELSE "status"

\* main, lines 119-127: where main stands after nf iterations of the
\* UPDATED_FILES loop and ne iterations of the EMPTY_FOLDERS loop
LoopPc(nf, ne) ==
  IF nf < Len(UPDATED_FILES) THEN "files"
  ELSE IF ne < Len(EMPTY_FOLDERS) THEN "folders"
  ELSE "status"

\* fetch_repo, lines 91-95: no local clone, clone_from succeeds
FetchRepoClone ==
  /\ WalkFinished
  /\ ~NothingFound
  /\ ~repoExists
  /\ repoExists' = TRUE
  /\ worktree' = origin
  /\ index' = origin
  /\ head' = origin
  /\ pc' = LoopPc(0, 0)
  /\ hist' = [hist EXCEPT !.acquired = "clone"]
  /\ UNCHANGED <<remoteVars, clock, run, err, walkVars, loopVars, origin,
                 statusVars>>

\* FetchRepoPull that opens the existing clone and does not pull
FetchRepoPull_NoPull ==
  /\ WalkFinished
  /\ ~NothingFound
  /\ repoExists
  /\ pc' = LoopPc(0, 0)
  /\ UNCHANGED <<remoteVars, clock, run, err, walkVars, loopVars, gitVars,
                 statusVars, hist>>

\* fetch_repo, lines 86-90: the clone exists, pull succeeds (origin holds
\* nothing the clone lacks, so the pull changes no file)
FetchRepoPull ==
  /\ WalkFinished
  /\ ~NothingFound
  /\ repoExists
  /\ pc' = LoopPc(0, 0)
  /\ hist' = [hist EXCEPT !.acquired = "pull"]
  /\ UNCHANGED <<remoteVars, clock, run, err, walkVars, loopVars, gitVars,
                 statusVars>>

\* fetch_repo, lines 87-95: Repo(), pull or clone_from raises
FetchRepoFails ==
  /\ WalkFinished
  /\ ~NothingFound
  /\ pc' = "failed"
  /\ err' = IF repoExists THEN "pull" ELSE "clone"
  /\ UNCHANGED <<remoteVars, clock, run, walkVars, loopVars, gitVars,
                 statusVars, hist>>

\* CreateFile that writes something other than the bytes served
CreateFile_OtherBytes ==
  /\ pc = "files"
  /\ LET f == UPDATED_FILES[nFiles + 1]
     IN /\ worktree' = WriteFile(worktree, f.path, "other")
        /\ hist' = [hist EXCEPT !.written = @ \cup {f.path}]
  /\ nFiles' = nFiles + 1
  /\ pc' = LoopPc(nFiles + 1, nFolders)
  /\ UNCHANGED <<remoteVars, clock, run, err, walkVars, nFolders, repoExists,
                 index, head, origin, statusVars>>

\* create_file, lines 45-49 (main, lines 119-121)
CreateFile ==
  /\ pc = "files"
  /\ LET f == UPDATED_FILES[nFiles + 1]
     IN /\ worktree' = WriteFile(worktree, f.path, CurrentBytes)
        /\ hist' = [hist EXCEPT !.written = @ \cup {f.path}]
  /\ nFiles' = nFiles + 1
  /\ pc' = LoopPc(nFiles + 1, nFolders)
  /\ UNCHANGED <<remoteVars, clock, run, err, walkVars, nFolders, repoExists,
                 index, head, origin, statusVars>>

\* CreateFileFails with the exception caught and the file skipped
CreateFileFails_Skipped ==
  /\ pc = "files"
  /\ nFiles' = nFiles + 1
  /\ pc' = LoopPc(nFiles + 1, nFolders)
  /\ hist' = [hist EXCEPT !.writeFailed = TRUE]
  /\ UNCHANGED <<remoteVars, clock, run, err, walkVars, nFolders, gitVars,
                 statusVars>>

\* create_file: the download, makedirs or the write raises
CreateFileFails ==
  /\ pc = "files"
  /\ pc' = "failed"
  /\ err' = "fetch"
  /\ hist' = [hist EXCEPT !.writeFailed = TRUE]
  /\ UNCHANGED <<remoteVars, clock, run, walkVars, loopVars, gitVars,
                 statusVars>>

\* create_empty_folder, lines 52-55 (main, lines 123-125)
CreateEmptyFolder ==
  /\ pc = "folders"
  /\ LET p == MarkerPath(EMPTY_FOLDERS[nFolders + 1])
     IN /\ worktree' = WriteFile(worktree, p, NoBytes)
        /\ hist' = [hist EXCEPT !.written = @ \cup {p}]
  /\ nFolders' = nFolders + 1
  /\ pc' = LoopPc(nFiles, nFolders + 1)
  /\ UNCHANGED <<remoteVars, clock, run, err, walkVars, nFiles, repoExists,
                 index, head, origin, statusVars>>

\* create_empty_folder: makedirs or the write raises
CreateEmptyFolderFails ==
  /\ pc = "folders"
  /\ pc' = "failed"
  /\ err' = "marker"
  /\ hist' = [hist EXCEPT !.writeFailed = TRUE]
  /\ UNCHANGED <<remoteVars, clock, run, walkVars, loopVars, gitVars,
                 statusVars>>

(* ----------------------------- commit/push ----------------------------- *)

\* main, lines 127-138: the status is read; dirty goes on to stage-all,
\* clean logs "No changes detected" and main returns
ReadStatus ==
  /\ pc = "status"
  /\ untracked_files' = Cardinality(Untracked(worktree, index))
  /\ changed_files' = Cardinality(Changed(worktree, index))
  /\ pc' = IF IsDirty(untracked_files', changed_files') THEN "add" ELSE "noop"
  /\ hist' = [hist EXCEPT !.statusReads = @ + 1]
  /\ UNCHANGED <<remoteVars, clock, run, err, walkVars, loopVars, gitVars>>

\* GitAdd that stages only the paths the run wrote
GitAdd_OnlyWritten ==
  /\ pc = "add"
  /\ index' = [p \in (DOMAIN index) \cup hist.written |->
                 IF p \in hist.written THEN worktree[p] ELSE index[p]]
  /\ pc' = "commit"
  /\ hist' = [hist EXCEPT !.stages = @ + 1]
  /\ UNCHANGED <<remoteVars, clock, run, err, walkVars, loopVars, repoExists,
                 worktree, head, origin, statusVars>>

\* main, line 134: GIT_REPO.git.add(A=True)
GitAdd ==
  /\ pc = "add"
  /\ index' = worktree
  /\ pc' = "commit"
  /\ hist' = [hist EXCEPT !.stages = @ + 1]
  /\ UNCHANGED <<remoteVars, clock, run, err, walkVars, loopVars, repoExists,
                 worktree, head, origin, statusVars>>

\* main, line 134: the add raises
GitAddFails ==
  /\ pc = "add"
  /\ pc' = "failed"
  /\ err' = "add"
  /\ UNCHANGED <<remoteVars, clock, run, walkVars, loopVars, gitVars,
                 statusVars, hist>>

\* main, line 135: GIT_REPO.index.commit(...)
GitCommit ==
  /\ pc = "commit"
  /\ head' = index
  /\ pc' = "push"
  /\ hist' = [hist EXCEPT !.commits = @ + 1]
  /\ UNCHANGED <<remoteVars, clock, run, err, walkVars, loopVars, repoExists,
                 worktree, index, origin, statusVars>>

\* GitCommitFails with the exception caught and logged, main going on
GitCommitFails_Ignored ==
  /\ pc = "commit"
  /\ pc' = "push"
  /\ err' = "commit"
  /\ UNCHANGED <<remoteVars, clock, run, walkVars, loopVars, gitVars,
                 statusVars, hist>>

\* main, line 135: the commit raises
GitCommitFails ==
  /\ pc = "commit"
  /\ pc' = "failed"
  /\ err' = "commit"
  /\ UNCHANGED <<remoteVars, clock, run, walkVars, loopVars, gitVars,
                 statusVars, hist>>

\* main, line 136: GIT_REPO.remote().push() updates origin
GitPush ==
  /\ pc = "push"
  /\ origin' = head
  /\ pc' = "pushed"
  /\ hist' = [hist EXCEPT !.pushes = @ + 1]
  /\ UNCHANGED <<remoteVars, clock, run, err, walkVars, loopVars, repoExists,
                 worktree, index, head, statusVars>>

\* main, line 136: the push is attempted and raises; origin keeps its tree
GitPushFails ==
  /\ pc = "push"
  /\ pc' = "failed"
  /\ err' = "push"
  /\ hist' = [hist EXCEPT !.pushes = @ + 1]
  /\ UNCHANGED <<remoteVars, clock, run, walkVars, loopVars, gitVars,
                 statusVars>>

(* ------------------------- process and clock --------------------------- *)

\* main has returned or an exception has left asyncio.run
Terminated == pc \in {"exit", "noop", "pushed", "failed"}

\* line 141: the process is started again; module globals are fresh, the
\* local directory and the origin repository are as the last run left them
StartRun ==
  /\ Terminated
  /\ run < MaxRuns
  /\ run' = run + 1
  /\ pc' = "start"
  /\ err' = "none"
  /\ rootItems' = <<>>
  /\ stack' = <<>>
  /\ UPDATED_FILES' = <<>>
  /\ EMPTY_FOLDERS' = <<>>
  /\ nFiles' = 0
  /\ nFolders' = 0
  /\ untracked_files' = 0
  /\ changed_files' = 0
  /\ hist' = StartHistory(remote, repoExists, worktree, index, head, origin,
                          pc, err)
  /\ UNCHANGED <<remoteVars, clock, gitVars>>

\* time passes while the walk awaits the remote store
Tick ==
  /\ pc \in {"start", "walk"}
  /\ clock < WINDOW + MaxTicks
  /\ clock' = clock + 1
  /\ UNCHANGED <<remoteVars, run, pc, err, walkVars, loopVars, gitVars,
                 statusVars, hist>>

Next ==
  \/ MainListRoot
  \/ MainListRootFails
  \/ MainSkipItem
  \/ MainWalkFolder
  \/ MapSkipStale
  \/ MapAppendFresh
  \/ MapRecurse
  \/ MapChildrenListFails
  \/ MainNoChanges
  \/ FetchRepoClone
  \/ FetchRepoPull
  \/ FetchRepoFails
  \/ CreateFile
  \/ CreateFileFails
  \/ CreateEmptyFolder
  \/ CreateEmptyFolderFails
  \/ ReadStatus
  \/ GitAdd
  \/ GitAddFails
  \/ GitCommit
  \/ GitCommitFails
  \/ GitPush
  \/ GitPushFails
  \/ StartRun
  \/ Tick

Spec == Init /\ [][Next]_vars

(* ============================ properties =============================== *)

\* name.startswith('ZZ'), spelled out
StartsWithZZ(name) == Len(name) >= 2 /\ name[1] = "Z" /\ name[2] = "Z"

RECURSIVE NameChain(_, _)
\* the names of the folders above item i, outermost first, then its own
NameChain(r, i) ==
  IF r[i].parent = ROOT_DIR_ID THEN <<r[i].name>>
  ELSE Append(NameChain(r, r[i].parent), r[i].name)

\* repository root, ancestor folder names, own name
ExpectedPath(r, i) == <<Dot, GIT_REPO_PATH>> \o NameChain(r, i)

\* p is a prefix of q
IsPrefix(p, q) == Len(p) <= Len(q) /\ SubSeq(q, 1, Len(p)) = p

Files == {i \in ItemIds : remote[i].kind = "file"}
Folders == {i \in ItemIds : remote[i].kind = "folder"}

\* positions of UPDATED_FILES that hold item i
EntriesOf(i) == {k \in 1..Len(UPDATED_FILES) : UPDATED_FILES[k].id = i}

\* positions of EMPTY_FOLDERS that hold path p
MarkersOf(p) == {k \in 1..Len(EMPTY_FOLDERS) : EMPTY_FOLDERS[k] = p}

\* the walk of the current run has run to its end
WalkCompleted ==
  \/ WalkFinished
  \/ pc \in {"exit", "files", "folders", "status", "add", "commit", "push",
             "noop", "pushed"}
  \/ pc = "failed" /\ err # "list"

\* both materialization loops of the current run have run to their end
MaterializationDone ==
  \/ pc \in {"status", "add", "commit", "push", "noop", "pushed"}
  \/ pc = "failed" /\ err \in {"add", "commit", "push"}

\* C1: a file that is older than now - 15 minutes when map_children examines
\* it gets no UPDATED_FILES entry, and its local path is not written in
\* that run.
C1_StaleNeverQueued ==
  \A i \in hist.staleSeen :
    /\ EntriesOf(i) = {}
    /\ ExpectedPath(remote, i) \notin hist.written

\* a run that examined a stale file wrote other paths and reached its end
C1_Witness ==
  /\ hist.staleSeen # {}
  /\ hist.written # {}
  /\ pc \in {"noop", "pushed"}

\* C2 as stated: once the walk has ended, every remote file under the root
\* with lastModified >= now - 15 minutes has exactly one UPDATED_FILES entry,
\* at repository root / ancestor names / own name.  (The clock only grows,
\* so a file inside the window now was inside it whenever it was examined.)
C2_Original ==
  WalkCompleted =>
    \A i \in Files :
      remote[i].lm >= clock - WINDOW =>
        /\ Cardinality(EntriesOf(i)) = 1
        /\ \A k \in EntriesOf(i) : UPDATED_FILES[k].path = ExpectedPath(remote, i)

\* C2 amended: once the walk has ended, every file that lies below a
\* root-level folder whose name does not start with ZZ has been examined,
\* and if it was inside the window when examined it has exactly one
\* UPDATED_FILES entry, at repository root / ancestor names / own name.
C2_FreshQueuedOnce ==
  WalkCompleted =>
    \A i \in Files :
      LET t == TopAncestor(remote, i)
      IN (t # i /\ remote[t].kind = "folder" /\ ~StartsWithZZ(remote[t].name)) =>
           /\ i \in hist.examined
           /\ i \notin hist.staleSeen =>
                /\ Cardinality(EntriesOf(i)) = 1
                /\ \A k \in EntriesOf(i) :
                     UPDATED_FILES[k].path = ExpectedPath(remote, i)

\* the walk has ended and queued a file that lies two folders deep
C2_Witness ==
  /\ WalkCompleted
  /\ \E k \in 1..Len(UPDATED_FILES) :
       /\ remote[remote[UPDATED_FILES[k].id].parent].parent # ROOT_DIR_ID
       /\ UPDATED_FILES[k].id \notin hist.staleSeen

\* C3: when the status read after materialization reports no untracked and
\* no modified file, the run stages, commits and pushes nothing and ends in
\* NoOp.
C3_CleanIsNoOp ==
  (hist.statusReads > 0 /\ untracked_files = 0 /\ changed_files = 0) =>
    /\ pc = "noop"
    /\ hist.stages = 0
    /\ hist.commits = 0
    /\ hist.pushes = 0

\* work items were written, and the status read found the tree clean
C3_Witness ==
  /\ hist.statusReads > 0
  /\ untracked_files = 0
  /\ changed_files = 0
  /\ hist.written # {}

\* C4 as stated: a run whose status read reported an untracked or a modified
\* file has, when it ends, created exactly one commit and attempted exactly
\* one push.
C4_Original ==
  (Terminated /\ hist.statusReads > 0
     /\ (untracked_files > 0 \/ changed_files > 0)) =>
    /\ hist.commits = 1
    /\ hist.pushes = 1

\* C4 amended: after a status read that reported an untracked or a modified
\* file the run never stages, commits or pushes more than once, pushes only
\* after its one commit, and, unless stage-all or the commit raised, ends
\* with exactly one commit created and exactly one push attempted.
C4_DirtyCommitsOnce ==
  (hist.statusReads > 0 /\ (untracked_files > 0 \/ changed_files > 0)) =>
    /\ hist.stages <= 1
    /\ hist.commits <= 1
    /\ hist.pushes <= 1
    /\ hist.pushes = 1 => hist.commits = 1
    /\ (Terminated /\ err \notin {"add", "commit"}) =>
         (hist.commits = 1 /\ hist.pushes = 1)

\* a run found a modified file and ended with its commit pushed
C4_Witness ==
  /\ pc = "pushed"
  /\ changed_files > 0
  /\ hist.commits = 1
  /\ hist.pushes = 1

\* C5: once the status has been read, or anything staged, committed or
\* pushed, the walk of the run has ended and every UPDATED_FILES and
\* EMPTY_FOLDERS entry it produced has been written to the working tree.
C5_StatusAfterMaterialization ==
  (hist.statusReads + hist.stages + hist.commits + hist.pushes > 0) =>
    /\ rootItems = <<>>
    /\ stack = <<>>
    /\ nFiles = Len(UPDATED_FILES)
    /\ nFolders = Len(EMPTY_FOLDERS)
    /\ \A k \in 1..Len(UPDATED_FILES) : UPDATED_FILES[k].path \in hist.written
    /\ \A k \in 1..Len(EMPTY_FOLDERS) :
         Append(EMPTY_FOLDERS[k], GitKeep) \in hist.written

\* the status was read in a run that had both kinds of work item
C5_Witness ==
  /\ hist.statusReads > 0
  /\ Len(UPDATED_FILES) > 0
  /\ Len(EMPTY_FOLDERS) > 0

\* C6: a root-level item whose name starts with ZZ is never listed, no
\* UPDATED_FILES entry belongs to an item below it and no EMPTY_FOLDERS entry
\* is its path or a path below it.
C6_RootArchiveContributesNothing ==
  \A t \in ItemIds :
    (remote[t].parent = ROOT_DIR_ID /\ StartsWithZZ(remote[t].name)) =>
      /\ t \notin hist.listed
      /\ \A i \in ItemIds :
           TopAncestor(remote, i) = t =>
             /\ i \notin hist.listed
             /\ i \notin hist.examined
             /\ EntriesOf(i) = {}
      /\ \A k \in 1..Len(EMPTY_FOLDERS) :
           ~IsPrefix(ExpectedPath(remote, t), EMPTY_FOLDERS[k])
      /\ \A k \in 1..Len(UPDATED_FILES) :
           ~IsPrefix(ExpectedPath(remote, t), UPDATED_FILES[k].path)

\* the walk has ended, it walked some folder, and the root holds an archive
\* folder that has a child
C6_Witness ==
  /\ WalkFinished
  /\ hist.listed # {ROOT_DIR_ID}
  /\ \E t, i \in ItemIds :
       /\ remote[t].parent = ROOT_DIR_ID
       /\ remote[t].kind = "folder"
       /\ StartsWithZZ(remote[t].name)
       /\ remote[i].parent = t

\* folders whose children request of the current run succeeded
Walked == (hist.listed \ hist.listFailed) \ {ROOT_DIR_ID}

\* C7: a walked folder whose listing has no children has exactly one
\* EMPTY_FOLDERS entry, its mapped local path, and no UPDATED_FILES entry
\* lies below that path; once materialization has run to its end the
\* working tree holds a zero-byte placeholder in that directory.
C7_EmptyFolderMarked ==
  \A i \in Walked :
    (\A j \in ItemIds : remote[j].parent # i) =>
      /\ Cardinality(MarkersOf(ExpectedPath(remote, i))) = 1
      /\ \A k \in 1..Len(UPDATED_FILES) :
           ~IsPrefix(ExpectedPath(remote, i), UPDATED_FILES[k].path)
      /\ MaterializationDone =>
           LET m == Append(ExpectedPath(remote, i), GitKeep)
           IN m \in DOMAIN worktree /\ worktree[m] = NoBytes

\* materialization has ended in a run that walked an empty folder lying
\* inside another folder
C7_Witness ==
  /\ MaterializationDone
  /\ \E i \in Walked :
       /\ \A j \in ItemIds : remote[j].parent # i
       /\ remote[i].parent # ROOT_DIR_ID

\* C8: a folder at any depth whose name starts with ZZ is never listed, no
\* work item is emitted for it or for anything below it, and a walked folder
\* whose only children are such folders is recorded as empty.
C8_ArchiveExcludedAtAnyDepth ==
  /\ \A a \in Folders :
       StartsWithZZ(remote[a].name) =>
         /\ a \notin hist.listed
         /\ \A k \in 1..Len(EMPTY_FOLDERS) :
              ~IsPrefix(ExpectedPath(remote, a), EMPTY_FOLDERS[k])
         /\ \A k \in 1..Len(UPDATED_FILES) :
              ~IsPrefix(ExpectedPath(remote, a), UPDATED_FILES[k].path)
  /\ \A p \in Walked :
       (\A j \in ItemIds :
          remote[j].parent = p =>
            (remote[j].kind = "folder" /\ StartsWithZZ(remote[j].name))) =>
         MarkersOf(ExpectedPath(remote, p)) # {}

\* C9: within one run two examined files with the same lastModified get the
\* same decision: both are queued or both are passed over.
C9_SameTimestampSameDecision ==
  \A i, j \in hist.examined :
    remote[i].lm = remote[j].lm => (EntriesOf(i) = {} <=> EntriesOf(j) = {})

\* state part of C10
C10_Aborted ==
  hist.listFailed # {} =>
    /\ pc = "failed"
    /\ hist.acquired = "none"
    /\ hist.statusReads = 0
    /\ hist.stages = 0
    /\ hist.commits = 0
    /\ hist.pushes = 0

\* step part of C10
C10_NothingFurther ==
  (hist.listFailed # {} /\ run' = run) =>
    /\ hist'.listed = hist.listed
    /\ hist'.examined = hist.examined
    /\ UNCHANGED <<UPDATED_FILES, EMPTY_FOLDERS, worktree, index, head, origin>>

\* C10: once a children request (of the root or of a walked folder) has
\* raised, the run is over: it lists and examines nothing further, acquires
\* no repository, reads no status, stages, commits and pushes nothing, and
\* changes neither the local files nor the origin repository.
C10_ListFailureAborts == []C10_Aborted /\ [][C10_NothingFurther]_vars

\* the listing of a folder below the root raised after a file was queued
C10_Witness ==
  /\ hist.listFailed # {}
  /\ ROOT_DIR_ID \notin hist.listFailed
  /\ Len(UPDATED_FILES) > 0
  /\ pc = "failed"

\* state part of C11
C11_Aborted ==
  hist.writeFailed =>
    /\ pc = "failed"
    /\ err \in {"fetch", "marker"}
    /\ hist.statusReads = 0
    /\ hist.stages = 0
    /\ hist.commits = 0
    /\ hist.pushes = 0

\* step part of C11
C11_NothingFurther ==
  (hist.writeFailed /\ run' = run) =>
    UNCHANGED <<worktree, index, head, origin, nFiles, nFolders>>

\* C11: once create_file or create_empty_folder has raised, the run is over
\* at that work item: it writes nothing further, reads no status, stages,
\* commits and pushes nothing, so the origin repository keeps its tree.
C11_WriteFailureAborts == []C11_Aborted /\ [][C11_NothingFurther]_vars

\* a write raised after another work item of the run had been written
C11_Witness ==
  /\ hist.writeFailed
  /\ hist.written # {}
  /\ nFiles + nFolders < Len(UPDATED_FILES) + Len(EMPTY_FOLDERS)
  /\ pc = "failed"

\* state part of C12
C12_AcquiredFirst ==
  (hist.statusReads > 0 \/ hist.written # {} \/ nFiles + nFolders > 0) =>
    /\ hist.acquired \in {"clone", "pull"}
    /\ repoExists

\* step part of C12
C12_OneAcquisition ==
  (hist'.acquired # hist.acquired /\ run' = run) =>
    /\ hist.acquired = "none"
    /\ hist'.acquired = IF repoExists THEN "pull" ELSE "clone"
    /\ hist.statusReads = 0
    /\ hist.written = {}
    /\ hist'.acquired = "clone" =>
         (repoExists' /\ worktree' = origin /\ index' = origin /\ head' = origin)
    /\ hist'.acquired = "pull" => UNCHANGED <<repoExists, worktree, index, head>>

\* C12: before a run reads the status or writes a work item, it has acquired
\* the repository exactly once: by a clone from the origin when no local
\* clone existed, by opening the existing clone and pulling otherwise.
C12_RepositoryAcquired == []C12_AcquiredFirst /\ [][C12_OneAcquisition]_vars

\* a second run opened the clone the first run made, pulled, and read the
\* status
C12_Witness ==
  /\ run = 2
  /\ hist.acquired = "pull"
  /\ hist.statusReads > 0

\* state part of C13
C13_NothingCommitted ==
  hist.syncedStart =>
    /\ hist.stages = 0
    /\ hist.commits = 0
    /\ hist.pushes = 0
    /\ hist.statusReads > 0 =>
         (untracked_files = 0 /\ changed_files = 0 /\ pc = "noop")
    /\ Terminated => pc \in {"noop", "exit", "failed"}
    /\ origin = MirrorTree(remote, CurrentBytes)

\* step part of C13
C13_StaysSynced ==
  (hist.syncedStart /\ run' = run + 1) => hist'.syncedStart

\* C13: a run that starts with a clean local tree (or none) and a repository
\* that already holds the remote's content creates no commit and attempts no
\* push; if it reads the status it ends in NoOp; and the next run starts
\* from such a state again, so the same holds for it.
C13_RerunIsNoOp == []C13_NothingCommitted /\ [][C13_StaysSynced]_vars

\* the second of two runs from a synced repository ends in NoOp after the
\* first ended in NoOp
C13_Witness ==
  /\ run = 2
  /\ hist.syncedStart
  /\ hist.prev = "noop"
  /\ pc = "noop"
  /\ hist.written # {}

\* the local paths the work items of the current run name
WorkPaths ==
  {UPDATED_FILES[k].path : k \in 1..Len(UPDATED_FILES)}
    \cup {Append(EMPTY_FOLDERS[k], GitKeep) : k \in 1..Len(EMPTY_FOLDERS)}

\* state part of C14
C14_OthersKept ==
  /\ hist.written \subseteq WorkPaths
  /\ \A p \in DOMAIN hist.before :
       /\ p \in DOMAIN worktree
       /\ p \notin WorkPaths => worktree[p] = hist.before[p]

\* step part of C14
C14_WritesOnlyWorkPaths ==
  pc \in {"files", "folders"} =>
    /\ \A p \in DOMAIN worktree :
         /\ p \in DOMAIN worktree'
         /\ worktree'[p] # worktree[p] => p \in WorkPaths
    /\ \A p \in (DOMAIN worktree') \ (DOMAIN worktree) : p \in WorkPaths
    /\ UNCHANGED <<index, head, origin>>

\* C14: a materialization step creates or overwrites only a path named by a
\* work item of the run; every other local file keeps its bytes and no local
\* file is deleted, also one whose remote counterpart no longer exists.
C14_MaterializationFrame == []C14_OthersKept /\ [][C14_WritesOnlyWorkPaths]_vars

\* both loops have ended in a run that wrote work items while the local
\* tree held a file the remote store has lost
C14_Witness ==
  /\ MaterializationDone
  /\ hist.written # {}
  /\ GonePath \in DOMAIN hist.before
  /\ GonePath \in DOMAIN worktree
  /\ GonePath \notin WorkPaths

\* state part of C15
C15_Ordered ==
  /\ hist.commits <= hist.stages
  /\ hist.pushes <= hist.commits
  /\ hist.stages <= hist.statusReads
  /\ pc = "noop" => (hist.stages = 0 /\ hist.commits = 0 /\ hist.pushes = 0)
  /\ err = "commit" => (pc = "failed" /\ hist.commits = 0 /\ hist.pushes = 0)
  /\ pc = "pushed" => (hist.stages = 1 /\ hist.commits = 1 /\ hist.pushes = 1)

\* step part of C15
C15_Steps ==
  /\ hist'.stages > hist.stages =>
       (pc = "add" /\ (untracked_files > 0 \/ changed_files > 0))
  /\ hist'.commits > hist.commits => (pc = "commit" /\ hist.stages = 1)
  /\ hist'.pushes > hist.pushes => (pc = "push" /\ hist.commits = 1)
  /\ (pc = "noop" \/ err = "commit") => run' = run + 1

\* C15: finalization runs Clean -> Staged -> Committed -> Pushed: stage-all
\* only after a dirty status, the commit only after stage-all, the push only
\* after the commit; nothing follows NoOp in the run; and after a commit
\* that raised the run attempts no push.
C15_FinalizeOrder == []C15_Ordered /\ [][C15_Steps]_vars

\* a commit raised after stage-all
C15_Witness ==
  /\ err = "commit"
  /\ hist.stages = 1
  /\ pc = "failed"

\* the children of folder i are all files that were found stale
OnlyStaleFiles(i) ==
  /\ \E j \in ItemIds : remote[j].parent = i
  /\ \A j \in ItemIds :
       remote[j].parent = i => (remote[j].kind = "file" /\ j \in hist.staleSeen)

\* C16: a walked folder whose listing is not empty has no EMPTY_FOLDERS
\* entry and gets no placeholder written; when all its children are stale
\* files, no work item lies at or below its path and nothing is written
\* there.
C16_NonEmptyNeverMarked ==
  \A i \in Walked :
    (\E j \in ItemIds : remote[j].parent = i) =>
      /\ MarkersOf(ExpectedPath(remote, i)) = {}
      /\ Append(ExpectedPath(remote, i), GitKeep) \notin hist.written
      /\ OnlyStaleFiles(i) =>
           /\ \A k \in 1..Len(UPDATED_FILES) :
                ~IsPrefix(ExpectedPath(remote, i), UPDATED_FILES[k].path)
           /\ \A k \in 1..Len(EMPTY_FOLDERS) :
                ~IsPrefix(ExpectedPath(remote, i), EMPTY_FOLDERS[k])
           /\ \A p \in hist.written : ~IsPrefix(ExpectedPath(remote, i), p)

\* the walk has ended after it walked a folder that lies inside another
\* folder and holds nothing but stale files
C16_Witness ==
  /\ WalkCompleted
  /\ \E i \in Walked : OnlyStaleFiles(i) /\ remote[i].parent # ROOT_DIR_ID

\* the walk of the current run has ended with both lists empty
WalkFoundNothing ==
  WalkCompleted /\ Len(UPDATED_FILES) = 0 /\ Len(EMPTY_FOLDERS) = 0

\* state part of C17
C17_Untouched ==
  WalkFoundNothing =>
    /\ pc \in {"walk", "exit"}
    /\ hist.acquired = "none"
    /\ hist.written = {}
    /\ hist.statusReads = 0
    /\ hist.stages = 0
    /\ hist.commits = 0
    /\ hist.pushes = 0
    /\ worktree = hist.before

\* step part of C17
C17_ReturnsAtOnce ==
  (WalkFoundNothing /\ run' = run) =>
    /\ pc' = "exit" \/ (pc' = pc /\ clock' # clock)
    /\ UNCHANGED <<repoExists, worktree, index, head, origin, hist>>

\* C17: when the walk ends with UPDATED_FILES and EMPTY_FOLDERS both empty,
\* main returns at once: no clone, no pull, no write, no status read, no
\* stage, commit or push, whatever the local working tree holds.
C17_NothingFoundReturns == []C17_Untouched /\ [][C17_ReturnsAtOnce]_vars

\* main returned early while the local tree held untracked or modified paths
C17_Witness ==
  /\ pc = "exit"
  /\ repoExists
  /\ hist.dirtyBefore # {}
  /\ Untracked(worktree, index) \cup Changed(worktree, index) # {}

\* state part of C18
C18_LeftoversCommitted ==
  /\ hist.commits <= 1
  /\ \A p \in hist.dirtyBefore :
       /\ p \in DOMAIN worktree
       /\ hist.statusReads > 0 =>
            (untracked_files + changed_files > 0 /\ pc # "noop")
       /\ hist.commits = 1 => (p \in DOMAIN head /\ head[p] = worktree[p])
       /\ pc = "pushed" => (p \in DOMAIN origin /\ origin[p] = worktree[p])

\* step part of C18
C18_TreeSurvivesRestart ==
  run' # run => UNCHANGED <<repoExists, worktree, index, head, origin>>

\* C18: what a run leaves in the working tree is still there when the next
\* process starts; a path that is untracked or modified at process start,
\* whether or not the run's work list names it, is counted by the run's
\* status read and is part of its one stage-all commit and its push.
C18_LeftoversRideAlong == []C18_LeftoversCommitted /\ [][C18_TreeSurvivesRestart]_vars

\* after a run that raised while writing, the next run pushed a commit
\* holding a leftover path its own work list does not name
C18_Witness ==
  /\ pc = "pushed"
  /\ hist.prev = "write"
  /\ \E p \in hist.dirtyBefore :
       /\ p \notin WorkPaths
       /\ p \in DOMAIN origin

====
